---------------------------- MODULE Spec2Model ----------------------------
\* Model of examples/15-shadowmaps-simple/shadowmaps_simple.cpp:
\*   - struct Group and struct Mesh: the chunked mesh decoder (Mesh::load from a
\*     file), the raw-array path (Mesh::load from vertex and index arrays),
\*     Mesh::unload and Mesh::submit;
\*   - _main_: the per-frame two-pass shadow-map render loop.
\* Spec drives one Mesh object through its methods; SpecFailing is Spec over a
\* backend whose create calls may return the invalid handle. SpecMain drives the
\* render loop of _main_ over four loaded meshes; FairSpecMain adds that the
\* statements of the loop body are executed once an iteration has begun.
EXTENDS Integers, Sequences, FiniteSets, TLC

VARIABLES
    pc,         \* Spec: "idle" (no method running) or "loading" (inside the while loop of the file load)
    m_groups,   \* Mesh::m_groups
    m_decl,     \* Mesh::m_decl, reduced to its stride: [init, stride]
    group,      \* the local `Group group` of the file load
    stream,     \* the chunks the reader has consumed so far in the current load, as they stand in the file
    eof,        \* the reader has hit the end of the file (a read came back short)
    calls,      \* the calls made to the bgfx backend, in order
    tagsRead,   \* the chunk tags the Mesh has read so far, over all its loads
    ops,        \* the Mesh methods called so far, in order
    createMayFail,  \* the backend may be unable to create a buffer (it then returns the invalid handle)
    \* _main_
    mainPc,     \* where _main_ stands: "loop", "shadow", "scene", "frame", "unload", "done"
    obj,        \* the next object of the pass under way, 1..4
    rendererType,           \* bgfx::getRendererType()
    s_flipV,
    meshes,                 \* m_groups of hplaneMesh, bunnyMesh, hollowcubeMesh, cubeMesh
    timeAccumulatorLight,
    timeAccumulatorScene,
    frames,                 \* iterations of the render loop begun so far
    frameCalls              \* the bgfx calls of the current iteration of the render loop, in order

meshVars == <<pc, m_groups, m_decl, group, stream, eof, calls, tagsRead, ops, createMayFail>>

mainVars == <<mainPc, obj, rendererType, s_flipV, meshes, timeAccumulatorLight,
              timeAccumulatorScene, frames, frameCalls>>

vars == <<pc, m_groups, m_decl, group, stream, eof, calls, tagsRead, ops, createMayFail,
          mainPc, obj, rendererType, s_flipV, meshes, timeAccumulatorLight,
          timeAccumulatorScene, frames, frameCalls>>

-----------------------------------------------------------------------------
(* Bounds of the model *)

\* chunk tags read (loop iterations of the file load) by the one Mesh object
MaxChunks == 3
\* Mesh methods called on the one Mesh object
MaxOps == 3
\* iterations of the render loop of _main_
MaxFrames == 2
\* Groups in a mesh that _main_ loaded from a file
MaxGroups == 2

-----------------------------------------------------------------------------
(* Values *)

invalidHandle == 65535

isValid(h) == h # invalidHandle

\* stride of the PosNormal layout: 3 floats and 4 normalized bytes
PosNormalStride == 3 * 4 + 4 * 1

\* the strides a vertex declaration in a file may carry
StrideValues == {PosNormalStride}

\* vertex counts (uint16_t) and index counts (uint32_t) a file may declare
VertexCounts == {2}
IndexCounts == {3}

\* the values an uninitialized count may hold
AnyCounts == {2, 3}

Prim(si, ni, sv, nv) ==
    [m_startIndex |-> si, m_numIndices |-> ni, m_startVertex |-> sv, m_numVertices |-> nv]

\* the primitive records a file may carry
PrimA == Prim(0, 3, 0, 2)
PrimB == Prim(3, 3, 0, 3)
PrimValues == {PrimA, PrimB}

\* the primitive lists of a PRI chunk
PrimLists == {<<>>, <<PrimA>>, <<PrimA, PrimB>>}

\* the primitive counts (uint16_t) a PRI chunk may declare
PrimCounts == {Len(l) : l \in PrimLists}

\* Group::reset
GroupReset == [m_vbh |-> invalidHandle, m_ibh |-> invalidHandle, m_prims |-> <<>>]


\* a default-constructed Group (Group::Group calls reset)
GroupInit == GroupReset

-----------------------------------------------------------------------------
(* The bgfx backend, seen through the calls the example makes to it *)

Call(op, h, size, got) == [op |-> op, h |-> h, size |-> size, got |-> got]

CallsOf(op) == {i \in DOMAIN calls : calls[i].op = op}

\* bgfx::createVertexBuffer / bgfx::createIndexBuffer hand out a handle that is
\* distinct from the sentinel and from every handle handed out before
NextVertexBufferHandle == Cardinality(CallsOf("createVertexBuffer"))
NextIndexBufferHandle == Cardinality(CallsOf("createIndexBuffer"))

\* what a create call may return: the fresh handle or, from a backend that
\* cannot create the buffer, the invalid handle
CreateResults(fresh) == IF createMayFail THEN {fresh, invalidHandle} ELSE {fresh}

-----------------------------------------------------------------------------
(* The file, as the reader meets it.  A chunk is the 4-byte tag followed by  *)
(* its fields; `avail` counts the fields that are wholly in the file, so a   *)
(* chunk with fewer than all of its fields is where the file ends.           *)

\* "VB": the bounding volumes (sphere, aabb, obb), decl, numVertices, data
VBFields == 4
\* "IB": numIndices, data
IBFields == 2
\* "PRI": the header (len, material, num), then num primitive records
PRIHeaderFields == 1

\* the byte counts of a payload that the file holds only in part
ShortOf(size) == {n \in {size \div 2} : n < size}

VBChunks ==
    {[tag |-> "VB", avail |-> VBFields, stride |-> s, numVertices |-> n, got |-> n * s] :
        s \in StrideValues, n \in VertexCounts}
    \cup {[tag |-> "VB", avail |-> a, stride |-> 0, numVertices |-> 0, got |-> 0] : a \in 0..1}
    \cup {[tag |-> "VB", avail |-> 2, stride |-> s, numVertices |-> 0, got |-> 0] : s \in StrideValues}
    \cup UNION {{[tag |-> "VB", avail |-> 3, stride |-> s, numVertices |-> n, got |-> g] :
                    g \in ShortOf(n * s)} : s \in StrideValues, n \in VertexCounts}

IBChunks ==
    {[tag |-> "IB", avail |-> IBFields, numIndices |-> n, got |-> n * 2] : n \in IndexCounts}
    \cup {[tag |-> "IB", avail |-> 0, numIndices |-> 0, got |-> 0]}
    \cup UNION {{[tag |-> "IB", avail |-> 1, numIndices |-> n, got |-> g] :
                    g \in ShortOf(n * 2)} : n \in IndexCounts}

\* the proper prefixes of a primitive list
ProperPrefixes(l) == {SubSeq(l, 1, k) : k \in 0..(Len(l) - 1)}

PRIChunks ==
    {[tag |-> "PRI", avail |-> PRIHeaderFields, num |-> Len(l), prims |-> l] : l \in PrimLists}
    \cup {[tag |-> "PRI", avail |-> a, num |-> 0, prims |-> <<>>] : a \in 0..(PRIHeaderFields - 1)}
    \cup UNION {{[tag |-> "PRI", avail |-> PRIHeaderFields, num |-> Len(l), prims |-> q] :
                    q \in ProperPrefixes(l)} : l \in PrimLists}

\* any other 4-byte value
OtherChunks == {[tag |-> "UNK", avail |-> 0]}

\* the chunk is wholly in the file
Complete(c) ==
    CASE c.tag = "VB" -> c.avail = VBFields
      [] c.tag = "IB" -> c.avail = IBFields
      [] c.tag = "PRI" -> c.avail = PRIHeaderFields /\ Len(c.prims) = c.num
      [] OTHER -> TRUE

-----------------------------------------------------------------------------
(* struct Mesh *)

\* m_decl.getStride(): m_decl is a member no constructor sets, so until a
\* declaration has been read its stride is whatever the memory holds
DeclStride == IF m_decl.init THEN {m_decl.stride} ELSE StrideValues

\* m_decl after bx::read(&reader, m_decl)
ReadDecl(c) == IF c.avail >= 2 THEN [init |-> TRUE, stride |-> c.stride] ELSE m_decl

\* uint16_t stride = m_decl.getStride()
ReadStride(c) == IF c.avail >= 2 THEN {c.stride} ELSE DeclStride

\* uint16_t numVertices after bx::read(&reader, numVertices): the local is not
\* initialized, so a read that comes back short leaves any value in it
ReadNumVertices(c) == IF c.avail >= 3 THEN {c.numVertices} ELSE AnyCounts

\* uint32_t numIndices after bx::read(&reader, numIndices)
ReadNumIndices(c) == IF c.avail >= 1 THEN {c.numIndices} ELSE AnyCounts

\* uint16_t num after bx::read(&reader, num)
ReadNum(c) == IF c.avail >= PRIHeaderFields THEN {c.num} ELSE PrimCounts

\* the Primitives the for loop pushes: those wholly in the file as read, the
\* others as the uninitialized local `Primitive prim` happens to stand
ReadPrims(c, num) ==
    {l \in [1..num -> PrimValues] : \A i \in 1..num : i <= Len(c.prims) => l[i] = c.prims[i]}

\* Mesh::load(const char* _filePath): reader.open and the local Group
LoadOpen ==
    /\ pc = "idle"
    /\ Len(ops) < MaxOps
    /\ pc' = "loading"
    /\ group' = GroupInit
    /\ stream' = <<>>
    /\ eof' = FALSE
    /\ ops' = Append(ops, "load")
    /\ UNCHANGED <<m_groups, m_decl, calls, tagsRead>>
    /\ UNCHANGED createMayFail
    /\ UNCHANGED mainVars

\* the loop test 4 == bx::read(&reader, chunk) passes
CanReadTag ==
    /\ pc = "loading"
    /\ ~eof
    /\ tagsRead < MaxChunks

\* variant of AfterVB: a vertex buffer the accumulator holds is kept
AfterVB_KeepFirst(g, vbh) == IF isValid(g.m_vbh) THEN g ELSE [g EXCEPT !.m_vbh = vbh]

\* the accumulator after case BGFX_CHUNK_MAGIC_VB
AfterVB(g, vbh) == [g EXCEPT !.m_vbh = vbh]

\* one iteration of the loop, case BGFX_CHUNK_MAGIC_VB
ChunkVB ==
    /\ CanReadTag
    /\ \E c \in VBChunks :
        \E stride \in ReadStride(c),
           numVertices \in ReadNumVertices(c),
           vbh \in CreateResults(NextVertexBufferHandle) :
            LET size == numVertices * stride
                got  == IF c.avail = VBFields THEN size ELSE c.got
            IN  /\ m_decl' = ReadDecl(c)
                /\ calls' = Append(calls, Call("createVertexBuffer", vbh, size, got))
                /\ group' = AfterVB(group, vbh)
                /\ stream' = Append(stream, c)
                /\ eof' = ~Complete(c)
    /\ tagsRead' = tagsRead + 1
    /\ UNCHANGED <<pc, m_groups, ops>>
    /\ UNCHANGED createMayFail
    /\ UNCHANGED mainVars

\* variant of AfterIB: the index buffer goes into a fresh accumulator
AfterIB_Fresh(g, ibh) == [GroupReset EXCEPT !.m_ibh = ibh]

\* the accumulator after case BGFX_CHUNK_MAGIC_IB
AfterIB(g, ibh) == [g EXCEPT !.m_ibh = ibh]

\* one iteration of the loop, case BGFX_CHUNK_MAGIC_IB
ChunkIB ==
    /\ CanReadTag
    /\ \E c \in IBChunks :
        \E numIndices \in ReadNumIndices(c),
           ibh \in CreateResults(NextIndexBufferHandle) :
            LET size == numIndices * 2
                got  == IF c.avail = IBFields THEN size ELSE c.got
            IN  /\ calls' = Append(calls, Call("createIndexBuffer", ibh, size, got))
                /\ group' = AfterIB(group, ibh)
                /\ stream' = Append(stream, c)
                /\ eof' = ~Complete(c)
    /\ tagsRead' = tagsRead + 1
    /\ UNCHANGED <<pc, m_groups, m_decl, ops>>
    /\ UNCHANGED createMayFail
    /\ UNCHANGED mainVars

\* variant of WithPrims: the for loop pushes no Primitive
WithPrims_None(g, prims) == g

\* the accumulator once the for loop of case BGFX_CHUNK_MAGIC_PRI has run
WithPrims(g, prims) == [g EXCEPT !.m_prims = g.m_prims \o prims]

\* variant of PushBack: the Group takes the place of those the Mesh held
PushBack_Replace(groups, g) == <<g>>

\* m_groups.push_back(group)
PushBack(groups, g) == Append(groups, g)

\* variant of AfterPRI: the call of group.reset() left out
AfterPRI_NoReset(g) == g

\* the accumulator after m_groups.push_back(group); group.reset()
AfterPRI(g) == GroupReset

\* one iteration of the loop, case BGFX_CHUNK_MAGIC_PRI
ChunkPRI ==
    /\ CanReadTag
    /\ \E c \in PRIChunks :
        \E num \in ReadNum(c) :
            \E prims \in ReadPrims(c, num) :
                /\ m_groups' = PushBack(m_groups, WithPrims(group, prims))
                /\ group' = AfterPRI(WithPrims(group, prims))
                /\ stream' = Append(stream, c)
                /\ eof' = ~Complete(c)
    /\ tagsRead' = tagsRead + 1
    /\ UNCHANGED <<pc, m_decl, calls, ops>>
    /\ UNCHANGED createMayFail
    /\ UNCHANGED mainVars

\* variant of AfterDefault: the default case resets the accumulator
AfterDefault_Reset(g) == GroupReset

\* the accumulator after the default case: DBG and break touch nothing
AfterDefault(g) == g

\* one iteration of the loop, default case: DBG only, no read after the tag
ChunkDefault ==
    /\ CanReadTag
    /\ \E c \in OtherChunks :
        /\ stream' = Append(stream, c)
    /\ group' = AfterDefault(group)
    /\ tagsRead' = tagsRead + 1
    /\ UNCHANGED <<pc, m_groups, m_decl, eof, calls, ops>>
    /\ UNCHANGED createMayFail
    /\ UNCHANGED mainVars

\* Mesh::m_groups when the while loop has ended and reader.close() returns
GroupsAtClose(groups, g) == groups

\* the loop test fails (fewer than 4 bytes left: `tagBytes` of a tag, or none)
\* and reader.close(); the local Group goes out of scope with what it holds
LoadClose ==
    /\ pc = "loading"
    /\ \E tagBytes \in (IF eof THEN {0} ELSE 0..3) : tagBytes < 4
    /\ eof' = TRUE
    /\ pc' = "idle"
    /\ m_groups' = GroupsAtClose(m_groups, group)
    /\ UNCHANGED <<m_decl, group, stream, calls, tagsRead, ops>>
    /\ UNCHANGED createMayFail
    /\ UNCHANGED mainVars

\* the plane of _main_: s_hplaneVertices and s_planeIndices
s_numHPlaneVertices == 4
s_numPlaneIndices == 6

\* Mesh::load(const void* _vertices, _numVertices, _decl, _indices, _numIndices)
LoadRaw ==
    /\ pc = "idle"
    /\ Len(ops) < MaxOps
    /\ \E vbh \in CreateResults(NextVertexBufferHandle),
          ibh \in CreateResults(NextIndexBufferHandle) :
        LET vsize == s_numHPlaneVertices * PosNormalStride
            isize == s_numPlaneIndices * 2
            g == AfterIB(AfterVB(GroupInit, vbh), ibh)
        IN  /\ calls' = calls \o << Call("createVertexBuffer", vbh, vsize, vsize),
                                    Call("createIndexBuffer", ibh, isize, isize) >>
            /\ m_groups' = PushBack(m_groups, g)
    /\ ops' = Append(ops, "loadRaw")
    /\ UNCHANGED <<pc, m_decl, group, stream, eof, tagsRead>>
    /\ UNCHANGED createMayFail
    /\ UNCHANGED mainVars

\* the body of the for loop of Mesh::unload for one Group
UnloadGroup(g) ==
    << Call("destroyVertexBuffer", g.m_vbh, 0, 0) >>
    \o (IF isValid(g.m_ibh) THEN << Call("destroyIndexBuffer", g.m_ibh, 0, 0) >> ELSE << >>)

\* the for loop of Mesh::unload
RECURSIVE UnloadCalls(_)
UnloadCalls(groups) ==
    IF groups = << >> THEN << >>
    ELSE UnloadGroup(Head(groups)) \o UnloadCalls(Tail(groups))

\* variant of Cleared: m_groups.clear() left out
Cleared_Kept(groups) == groups

\* m_groups.clear()
Cleared(groups) == << >>

\* Mesh::unload
Unload ==
    /\ pc = "idle"
    /\ Len(ops) < MaxOps
    /\ calls' = calls \o UnloadCalls(m_groups)
    /\ m_groups' = Cleared(m_groups)
    /\ ops' = Append(ops, "unload")
    /\ UNCHANGED <<pc, m_decl, group, stream, eof, tagsRead>>
    /\ UNCHANGED createMayFail
    /\ UNCHANGED mainVars

-----------------------------------------------------------------------------
(* Spec: one Mesh object, its methods called in any order *)

Init ==
    /\ pc = "idle"
    /\ m_groups = << >>
    /\ m_decl = [init |-> FALSE, stride |-> 0]
    /\ group = GroupInit
    /\ stream = << >>
    /\ eof = FALSE
    /\ calls = << >>
    /\ tagsRead = 0
    /\ ops = << >>
    /\ createMayFail = FALSE
    /\ mainPc = "done"
    /\ obj = 1
    /\ rendererType = "Direct3D9"
    /\ s_flipV = FALSE
    /\ meshes = [m \in {} |-> << >>]
    /\ timeAccumulatorLight = 0
    /\ timeAccumulatorScene = 0
    /\ frames = 0
    /\ frameCalls = << >>

Next ==
    \/ LoadOpen
    \/ ChunkVB
    \/ ChunkIB
    \/ ChunkPRI
    \/ ChunkDefault
    \/ LoadClose
    \/ LoadRaw
    \/ Unload

Spec == Init /\ [][Next]_vars

\* the same Mesh over a backend whose create calls may fail
InitFailing ==
    /\ pc = "idle"
    /\ m_groups = << >>
    /\ m_decl = [init |-> FALSE, stride |-> 0]
    /\ group = GroupInit
    /\ stream = << >>
    /\ eof = FALSE
    /\ calls = << >>
    /\ tagsRead = 0
    /\ ops = << >>
    /\ createMayFail = TRUE
    /\ mainPc = "done"
    /\ obj = 1
    /\ rendererType = "Direct3D9"
    /\ s_flipV = FALSE
    /\ meshes = [m \in {} |-> << >>]
    /\ timeAccumulatorLight = 0
    /\ timeAccumulatorScene = 0
    /\ frames = 0
    /\ frameCalls = << >>

SpecFailing == InitFailing /\ [][Next]_vars

-----------------------------------------------------------------------------
(* _main_: the render loop *)

RENDER_SHADOW_PASS_ID == 0
RENDER_SCENE_PASS_ID == 1

RendererTypes == {"Direct3D9", "Direct3D11", "OpenGL", "OpenGLES2", "OpenGLES3"}

\* s_flipV after the switch on bgfx::getRendererType()
FlipVOf(renderer) == renderer \in {"OpenGL", "OpenGLES2", "OpenGLES3"}

\* the objects of the scene in the order both passes submit them, each with
\* its mesh and its instance matrix
Objects ==
    << [mesh |-> "hplaneMesh", mtx |-> "mtxFloor"],
       [mesh |-> "bunnyMesh", mtx |-> "mtxBunny"],
       [mesh |-> "hollowcubeMesh", mtx |-> "mtxHollowcube"],
       [mesh |-> "cubeMesh", mtx |-> "mtxCube"] >>

MeshNames == {Objects[i].mesh : i \in DOMAIN Objects}

\* matrices are kept as the terms that compute them
mtxMul(a, b) == <<"mtxMul", a, b>>

\* mtxScaleRotateTranslate of an object: its constants and timeAccumulatorScene
InstanceMtx(name, tScene) == <<"mtxScaleRotateTranslate", name, tScene>>

\* lightView: mtxLookAt from the eye opposite lightPos, a function of timeAccumulatorLight
LightView(tLight) == <<"mtxLookAt", tLight>>

\* lightProj: mtxOrtho(-area, area, -area, area, -100, 100), area = 30
LightProj == <<"mtxOrtho", -30, 30, -30, 30, -100, 100>>

\* variant of Sign: the two branches exchanged
Sign_Inverted(flipV) == IF flipV THEN -1 ELSE 1

\* const float s = (s_flipV) ? 1.0f : -1.0f
Sign(flipV) == IF flipV THEN 1 ELSE -1

\* mtxCrop, every entry doubled so that it is an integer
MtxCrop2(flipV) ==
    << 1, 0,           0, 0,
       0, Sign(flipV), 0, 0,
       0, 0,           1, 0,
       1, 1,           1, 2 >>

\* mtxShadow: mtxMul(mtxTmp, lightProj, mtxCrop); mtxMul(mtxShadow, lightView, mtxTmp)
MtxShadow(tLight, flipV) == mtxMul(LightView(tLight), mtxMul(LightProj, MtxCrop2(flipV)))

BCall(op, arg) == [op |-> op, arg |-> arg]

\* the body of the for loop of Mesh::submit for one Group
SubmitGroup(g, view, mtx, program) ==
    << BCall("setTransform", mtx),
       BCall("setProgram", program),
       BCall("setIndexBuffer", g.m_ibh),
       BCall("setVertexBuffer", g.m_vbh),
       BCall("setTexture", <<4, "u_shadowMap", "s_rtShadowMap">>),
       BCall("setState", "RGB_WRITE|ALPHA_WRITE|DEPTH_WRITE|DEPTH_TEST_LESS|CULL_CCW|MSAA"),
       BCall("submit", view) >>

\* Mesh::submit(_view, _mtx, _program)
RECURSIVE MeshSubmit(_, _, _, _)
MeshSubmit(groups, view, mtx, program) ==
    IF groups = << >> THEN << >>
    ELSE SubmitGroup(Head(groups), view, mtx, program)
            \o MeshSubmit(Tail(groups), view, mtx, program)

\* a mesh as Mesh::load left it: n Groups, each sealed by a PRI chunk after its
\* VB and IB chunk, the buffers numbered from `first`
LoadedGroups(first, n) ==
    [i \in 1..n |-> [m_vbh |-> first + i - 1, m_ibh |-> first + i - 1, m_prims |-> <<PrimA>>]]

\* float deltaTime of an iteration, in ticks; `static int64_t last = now` makes
\* it 0 in the first
DeltaTimes == IF frames = 0 THEN {0} ELSE {0, 1}

\* the views a view mask names: bit v stands for view v
ViewsOfMask(mask) == {v \in 0..7 : (mask \div (2 ^ v)) % 2 = 1}

\* variant of ViewClearMask: the mask names the scene view alone
ViewClearMask_SceneOnly == 2 ^ RENDER_SCENE_PASS_ID

\* the view mask 0x3 handed to bgfx::setViewClearMask and bgfx::submitMask
ViewClearMask == 3

\* BGFX_CLEAR_COLOR_BIT | BGFX_CLEAR_DEPTH_BIT
ClearFlags == {"BGFX_CLEAR_COLOR_BIT", "BGFX_CLEAR_DEPTH_BIT"}

\* from the loop test to the end of the setup: the time accumulators, the view
\* rectangles and transforms, the render target, the clear and submitMask
FrameSetup ==
    /\ mainPc = "loop"
    /\ frames < MaxFrames
    /\ \E deltaTime \in DeltaTimes :
        /\ timeAccumulatorLight' = timeAccumulatorLight + deltaTime
        /\ timeAccumulatorScene' = timeAccumulatorScene + deltaTime
    /\ frameCalls' =
        << BCall("setUniform", <<"u_lightPos", <<"lightPos", timeAccumulatorLight'>> >>),
           BCall("setViewRect", <<RENDER_SHADOW_PASS_ID, "shadowMapSize">>),
           BCall("setViewRect", <<RENDER_SCENE_PASS_ID, "width,height">>),
           BCall("setViewTransform", <<RENDER_SHADOW_PASS_ID, LightView(timeAccumulatorLight'), LightProj>>),
           BCall("setViewTransform", <<RENDER_SCENE_PASS_ID, <<"view">>, <<"proj">> >>),
           BCall("setViewRenderTarget", <<RENDER_SHADOW_PASS_ID, "s_rtShadowMap">>),
           BCall("setViewClearMask", <<ViewsOfMask(ViewClearMask), ClearFlags>>),
           BCall("submitMask", ViewsOfMask(ViewClearMask)) >>
    /\ frames' = frames + 1
    /\ mainPc' = "shadow"
    /\ obj' = 1
    /\ UNCHANGED <<rendererType, s_flipV, meshes>>
    /\ UNCHANGED meshVars

\* variant of AfterPass: the iteration goes from the shadow pass to bgfx::frame()
AfterPass_SkipScene(pass) == "frame"

\* the block that follows the last object of a pass
AfterPass(pass) == IF pass = "shadow" THEN "scene" ELSE "frame"

\* variant of PassView: the two view ids exchanged
PassView_Swapped(pass) == IF pass = "shadow" THEN RENDER_SCENE_PASS_ID ELSE RENDER_SHADOW_PASS_ID

\* the view id each block passes to Mesh::submit
PassView(pass) == IF pass = "shadow" THEN RENDER_SHADOW_PASS_ID ELSE RENDER_SCENE_PASS_ID

\* the calls of one statement of the block "Craft shadow map"
ShadowCalls(o) ==
    MeshSubmit(meshes[o.mesh], PassView("shadow"),
               InstanceMtx(o.mtx, timeAccumulatorScene), "progPackDepth")

\* one statement of the block "Craft shadow map"
SubmitShadow ==
    /\ mainPc = "shadow"
    /\ frameCalls' = frameCalls \o ShadowCalls(Objects[obj])
    /\ IF obj < Len(Objects)
         THEN obj' = obj + 1 /\ mainPc' = mainPc
         ELSE obj' = 1 /\ mainPc' = AfterPass(mainPc)
    /\ UNCHANGED <<rendererType, s_flipV, meshes, timeAccumulatorLight, timeAccumulatorScene, frames>>
    /\ UNCHANGED meshVars

\* variant of LightMtx: the floor's model matrix for every object
LightMtx_OfFloor(o) ==
    mtxMul(InstanceMtx("mtxFloor", timeAccumulatorScene), MtxShadow(timeAccumulatorLight, s_flipV))

\* mtxMul(lightMtx, <the object's matrix>, mtxShadow)
LightMtx(o) ==
    mtxMul(InstanceMtx(o.mtx, timeAccumulatorScene), MtxShadow(timeAccumulatorLight, s_flipV))

\* the calls of one object of the block "Draw Scene"
SceneCalls(o) ==
    << BCall("setUniform", <<"u_lightMtx", LightMtx(o)>>) >>
    \o MeshSubmit(meshes[o.mesh], PassView("scene"),
                  InstanceMtx(o.mtx, timeAccumulatorScene), "progDraw")

\* one object of the block "Draw Scene": lightMtx, setUniform and submit
SubmitScene ==
    /\ mainPc = "scene"
    /\ frameCalls' = frameCalls \o SceneCalls(Objects[obj])
    /\ IF obj < Len(Objects)
         THEN obj' = obj + 1 /\ mainPc' = mainPc
         ELSE obj' = 1 /\ mainPc' = AfterPass(mainPc)
    /\ UNCHANGED <<rendererType, s_flipV, meshes, timeAccumulatorLight, timeAccumulatorScene, frames>>
    /\ UNCHANGED meshVars

\* bgfx::frame()
Frame ==
    /\ mainPc = "frame"
    /\ frameCalls' = Append(frameCalls, BCall("frame", << >>))
    /\ mainPc' = "loop"
    /\ UNCHANGED <<obj, rendererType, s_flipV, meshes, timeAccumulatorLight, timeAccumulatorScene, frames>>
    /\ UNCHANGED meshVars

\* entry::processEvents returns true
ExitLoop ==
    /\ mainPc = "loop"
    /\ mainPc' = "unload"
    /\ UNCHANGED <<obj, rendererType, s_flipV, meshes, timeAccumulatorLight, timeAccumulatorScene,
                   frames, frameCalls>>
    /\ UNCHANGED meshVars

\* bunnyMesh.unload(); cubeMesh.unload(); hollowcubeMesh.unload(); hplaneMesh.unload()
UnloadMeshes ==
    /\ mainPc = "unload"
    /\ calls' = calls \o UnloadCalls(meshes["bunnyMesh"]) \o UnloadCalls(meshes["cubeMesh"])
                      \o UnloadCalls(meshes["hollowcubeMesh"]) \o UnloadCalls(meshes["hplaneMesh"])
    /\ meshes' = [m \in MeshNames |-> Cleared(meshes[m])]
    /\ mainPc' = "done"
    /\ UNCHANGED <<obj, rendererType, s_flipV, timeAccumulatorLight, timeAccumulatorScene,
                   frames, frameCalls>>
    /\ UNCHANGED <<pc, m_groups, m_decl, group, stream, eof, tagsRead, ops, createMayFail>>

\* _main_ when it reaches the render loop: the renderer chosen, the three
\* meshes loaded from files and the plane loaded from its arrays (one Group
\* with both buffers and no primitives)
InitMain ==
    /\ rendererType \in RendererTypes
    /\ s_flipV = FlipVOf(rendererType)
    /\ \E nb \in 0..MaxGroups, nc \in 0..MaxGroups, nh \in 0..MaxGroups :
        meshes = [m \in MeshNames |->
                    CASE m = "bunnyMesh" -> LoadedGroups(0, nb)
                      [] m = "cubeMesh" -> LoadedGroups(nb, nc)
                      [] m = "hollowcubeMesh" -> LoadedGroups(nb + nc, nh)
                      [] OTHER -> << AfterIB(AfterVB(GroupInit, nb + nc + nh), nb + nc + nh) >>]
    /\ timeAccumulatorLight = 0
    /\ timeAccumulatorScene = 0
    /\ frames = 0
    /\ frameCalls = << >>
    /\ mainPc = "loop"
    /\ obj = 1
    /\ pc = "idle"
    /\ m_groups = << >>
    /\ m_decl = [init |-> FALSE, stride |-> 0]
    /\ group = GroupInit
    /\ stream = << >>
    /\ eof = FALSE
    /\ calls = << >>
    /\ tagsRead = 0
    /\ ops = << >>
    /\ createMayFail = FALSE

NextMain ==
    \/ FrameSetup
    \/ SubmitShadow
    \/ SubmitScene
    \/ Frame
    \/ ExitLoop
    \/ UnloadMeshes

SpecMain == InitMain /\ [][NextMain]_vars

\* the body of the loop is straight-line code calling functions that return: once
\* an iteration has begun, each of its statements is executed in turn
FairSpecMain ==
    /\ InitMain
    /\ [][NextMain]_vars
    /\ WF_vars(SubmitShadow)
    /\ WF_vars(SubmitScene)
    /\ WF_vars(Frame)

-----------------------------------------------------------------------------
(* Properties of the Mesh, checked under Spec *)

Last(q) == q[Len(q)]

\* the handles a kind of call was made with
HandlesOf(op) == {calls[i].h : i \in CallsOf(op)}

\* how often `op` was called with handle h among the calls q
TimesIn(q, op, h) == Cardinality({i \in DOMAIN q : q[i].op = op /\ q[i].h = h})

\* the chunk declares a count the file holds, and fewer bytes or records than that
ShortPayload(c) ==
    CASE c.tag = "VB" -> c.avail = VBFields - 1
      [] c.tag = "IB" -> c.avail = IBFields - 1
      [] c.tag = "PRI" -> c.avail = PRIHeaderFields /\ Len(c.prims) < c.num
      [] OTHER -> FALSE

\* every chunk read so far in the current load is wholly in the file
WellFormed == \A i \in DOMAIN stream : Complete(stream[i])

\* the step reads a chunk tag and decodes the chunk behind it
DecodesChunk == tagsRead' = tagsRead + 1

\* the step is a call of Mesh::unload
CallsUnload == ops' = Append(ops, "unload")

\* C1: after a file load followed by unload, every vertex buffer and every index
\* buffer created while decoding has been destroyed exactly once: none leaked,
\* none destroyed twice.
C1_EveryBufferReleasedOnce ==
    (ops = <<"load", "unload">> /\ WellFormed) =>
        /\ \A h \in HandlesOf("createVertexBuffer") : TimesIn(calls, "destroyVertexBuffer", h) = 1
        /\ \A h \in HandlesOf("createIndexBuffer") : TimesIn(calls, "destroyIndexBuffer", h) = 1

\* C2: while decoding a stream in which an IB chunk stands before any VB chunk,
\* decoding fails: no index buffer is created and no Mesh is produced from it.
C2_IndexBeforeVertexFails ==
    ( /\ ops = <<"load">>
      /\ WellFormed
      /\ \E i \in DOMAIN stream :
            /\ stream[i].tag = "IB"
            /\ \A j \in 1..(i - 1) : stream[j].tag # "VB" )
    => /\ CallsOf("createIndexBuffer") = {}
       /\ m_groups = << >>

\* C3: when the stream has ended while the accumulator holds vertices no PRI chunk
\* sealed, the Mesh contains that trailing Group with its vertex and index buffer.
C3_TrailingGroupIncluded ==
    ( /\ ops = <<"load">>
      /\ pc = "idle"
      /\ WellFormed
      /\ isValid(group.m_vbh) )
    => /\ m_groups # << >>
       /\ Last(m_groups).m_vbh = group.m_vbh
       /\ Last(m_groups).m_ibh = group.m_ibh

\* C4: a VB chunk that arrives while the accumulator already holds a vertex buffer
\* first appends the unsealed accumulator to the Mesh as a Group of its own; the
\* earlier vertex buffer handle is not overwritten and lost.
C4_UnsealedAppendedBeforeNewVB ==
    [][ ( /\ DecodesChunk
          /\ Last(stream').tag = "VB"
          /\ Complete(Last(stream'))
          /\ WellFormed
          /\ isValid(group.m_vbh) )
        => /\ m_groups' = Append(m_groups, group)
           /\ \E g \in {m_groups'[i] : i \in DOMAIN m_groups'} : g.m_vbh = group.m_vbh
      ]_vars

\* C5: a PRI chunk appends exactly one Group to the Mesh; that Group carries the
\* accumulator's vertex handle and index handle and exactly the primitives the
\* chunk lists, in order; afterwards the accumulator is Empty (both handles
\* invalid, no primitives), so nothing of one Group carries over into the next.
C5_PrimitiveChunkSealsGroup ==
    [][ ( /\ DecodesChunk
          /\ Last(stream').tag = "PRI" )
        => LET c == Last(stream')
           IN  /\ Len(m_groups') = Len(m_groups) + 1
               /\ SubSeq(m_groups', 1, Len(m_groups)) = m_groups
               /\ Last(m_groups').m_vbh = group.m_vbh
               /\ Last(m_groups').m_ibh = group.m_ibh
               /\ Len(Last(m_groups').m_prims) >= Len(c.prims)
               /\ SubSeq(Last(m_groups').m_prims, 1, Len(c.prims)) = c.prims
               /\ Complete(c) => Last(m_groups').m_prims = c.prims
               /\ ~isValid(group'.m_vbh)
               /\ ~isValid(group'.m_ibh)
               /\ group'.m_prims = << >>
      ]_vars

\* C5 witness: a second PRI chunk of one load has been sealed with its own two
\* primitives after a first Group with one primitive and both buffers
C5_Witness ==
    /\ pc = "loading"
    /\ Len(stream) = 3
    /\ stream[1].tag = "VB"
    /\ stream[2] = [tag |-> "PRI", avail |-> PRIHeaderFields, num |-> 1, prims |-> <<PrimA>>]
    /\ stream[3] = [tag |-> "PRI", avail |-> PRIHeaderFields, num |-> 2, prims |-> <<PrimA, PrimB>>]
    /\ Len(m_groups) = 2
    /\ isValid(m_groups[1].m_vbh)
    /\ m_groups[1].m_prims = <<PrimA>>
    /\ m_groups[2] = [m_vbh |-> invalidHandle, m_ibh |-> invalidHandle, m_prims |-> <<PrimA, PrimB>>]
    /\ group = GroupReset

\* C9: decoding a chunk whose payload or record the file holds only in part fails
\* and is aborted: no buffer is created from the short payload and no Group is
\* appended from it.
C9_ShortChunkAborts ==
    [][ ( /\ DecodesChunk
          /\ WellFormed
          /\ ShortPayload(Last(stream')) )
        => /\ calls' = calls
           /\ m_groups' = m_groups
      ]_vars

\* C10: Mesh::unload leaves the Mesh without any handle, destroying every buffer
\* the Mesh held exactly once in that call; a second unload right after destroys
\* nothing.
C10_UnloadIdempotent ==
    [][ CallsUnload
        => LET new == SubSeq(calls', Len(calls) + 1, Len(calls'))
           IN  /\ SubSeq(calls', 1, Len(calls)) = calls
               /\ m_groups' = << >>
               /\ \A i \in DOMAIN m_groups :
                    /\ isValid(m_groups[i].m_vbh)
                        => TimesIn(new, "destroyVertexBuffer", m_groups[i].m_vbh) = 1
                    /\ isValid(m_groups[i].m_ibh)
                        => TimesIn(new, "destroyIndexBuffer", m_groups[i].m_ibh) = 1
               /\ (ops # << >> /\ Last(ops) = "unload") => new = << >>
      ]_vars

\* C10 witness: unload was called twice in a row on a Mesh that held a vertex and
\* an index buffer, and each was destroyed
C10_Witness ==
    /\ ops = <<"load", "unload", "unload">>
    /\ HandlesOf("createVertexBuffer") # {}
    /\ HandlesOf("destroyVertexBuffer") = HandlesOf("createVertexBuffer")
    /\ HandlesOf("createIndexBuffer") # {}
    /\ HandlesOf("destroyIndexBuffer") = HandlesOf("createIndexBuffer")
    /\ m_groups = << >>

\* the fields of the chunk c that the reader has consumed after its 4-byte tag
FieldsConsumed(c) == IF c.tag = "UNK" THEN 0 ELSE c.avail

\* the loop test of the file load will read the next 4 bytes as a chunk tag
ReadsTagNext == pc = "loading" /\ ~eof

\* C11: on an unrecognized 4-byte tag the decoder consumes the tag and nothing
\* after it, leaves the accumulator and Mesh::m_groups (and the backend) as they
\* were and goes on with the loop, reading the next 4 bytes as a chunk tag:
\* decoding is not aborted.
C11_UnknownTagSkipped ==
    [][ ( /\ DecodesChunk
          /\ Last(stream').tag \notin {"VB", "IB", "PRI"} )
        => /\ tagsRead' = tagsRead + 1
           /\ stream' = Append(stream, Last(stream'))
           /\ FieldsConsumed(Last(stream')) = 0
           /\ group' = group
           /\ m_groups' = m_groups
           /\ m_decl' = m_decl
           /\ calls' = calls
           /\ ReadsTagNext
           /\ ReadsTagNext'
      ]_vars

\* C11 witness: an unrecognized tag stood between a VB chunk and a PRI chunk, and
\* the PRI chunk sealed the vertex buffer of the VB chunk
C11_Witness ==
    /\ pc = "loading"
    /\ Len(stream) = 3
    /\ stream[1].tag = "VB" /\ Complete(stream[1])
    /\ stream[2].tag = "UNK"
    /\ stream[3].tag = "PRI" /\ Complete(stream[3])
    /\ Len(m_groups) = 1
    /\ isValid(m_groups[1].m_vbh)
    /\ m_groups[1].m_vbh \in HandlesOf("createVertexBuffer")

\* the stream of the first load is a complete VB chunk followed at once by a
\* complete PRI chunk, and nothing after it
VBThenPRI ==
    /\ ops = <<"load">>
    /\ Len(stream) = 2
    /\ stream[1].tag = "VB" /\ Complete(stream[1])
    /\ stream[2].tag = "PRI" /\ Complete(stream[2])

\* C12: decoding one VB chunk followed at once by one PRI chunk with k primitives
\* yields a Mesh with exactly one Group, which holds the vertex buffer created
\* from the VB chunk and the k primitives of the PRI chunk as the file has them;
\* for 2 vertices of stride 16 and one primitive over the full range, the one
\* Primitive of the one Group has m_numVertices = 2.
C12_VBThenPRIYieldsOneGroup ==
    VBThenPRI
    => /\ Len(m_groups) = 1
       /\ m_groups[1].m_prims = stream[2].prims
       /\ Len(m_groups[1].m_prims) = stream[2].num
       /\ Len(calls) = 1
       /\ calls[1] = Call("createVertexBuffer", m_groups[1].m_vbh,
                          stream[1].numVertices * stream[1].stride,
                          stream[1].numVertices * stream[1].stride)
       /\ isValid(m_groups[1].m_vbh)
       /\ ( /\ stream[1].numVertices = 2
            /\ stream[1].stride = 16
            /\ stream[2].prims = <<Prim(0, 3, 0, 2)>> )
          => /\ Len(m_groups[1].m_prims) = 1
             /\ m_groups[1].m_prims[1].m_numVertices = 2

\* C12 witness: the load of a VB chunk (2 vertices, stride 16) and a PRI chunk
\* with one primitive over both vertices has returned
C12_Witness ==
    /\ VBThenPRI
    /\ pc = "idle"
    /\ stream[1].numVertices = 2
    /\ stream[1].stride = 16
    /\ stream[2].prims = <<Prim(0, 3, 0, 2)>>
    /\ Len(m_groups) = 1
    /\ m_groups[1].m_prims[1].m_numVertices = 2

\* C12 witness of the general case: k = 2 primitives
C12_WitnessTwoPrims ==
    /\ VBThenPRI
    /\ pc = "idle"
    /\ stream[2].num = 2
    /\ m_groups[1].m_prims = <<PrimA, PrimB>>

\* the calls the step has added to those made before it
NewCalls == SubSeq(calls', Len(calls) + 1, Len(calls'))

\* the step has called the backend for a buffer and got the invalid handle
CreateFailed ==
    \E k \in DOMAIN NewCalls :
        /\ NewCalls[k].op \in {"createVertexBuffer", "createIndexBuffer"}
        /\ ~isValid(NewCalls[k].h)

\* C16: when the backend returns the invalid handle for a vertex or index buffer
\* while a Mesh is loaded, the load is aborted there: decoding does not go on to
\* the next chunk, and no Group is appended to the Mesh with the failed handle.
C16_CreateFailureAborts ==
    [][ ( /\ CreateFailed
          /\ \A i \in DOMAIN stream' : Complete(stream'[i]) )
        => /\ ~ReadsTagNext'
           /\ m_groups' = m_groups
      ]_vars

\* the step is a call of the load from vertex and index arrays
CallsLoadRaw == ops' = Append(ops, "loadRaw")

\* C17: the load from raw vertex and index arrays appends exactly one Group to
\* Mesh::m_groups and leaves the Groups the Mesh held as they were (so an empty
\* Mesh ends with exactly one Group); that Group holds the vertex buffer and the
\* index buffer the call created from the two arrays, and no primitive.
C17_RawLoadAppendsOneGroup ==
    [][ CallsLoadRaw
        => /\ Len(m_groups') = Len(m_groups) + 1
           /\ SubSeq(m_groups', 1, Len(m_groups)) = m_groups
           /\ Len(NewCalls) = 2
           /\ NewCalls[1].op = "createVertexBuffer"
           /\ NewCalls[2].op = "createIndexBuffer"
           /\ Last(m_groups') =
                [m_vbh |-> NewCalls[1].h, m_ibh |-> NewCalls[2].h, m_prims |-> << >>]
           /\ isValid(Last(m_groups').m_vbh)
           /\ isValid(Last(m_groups').m_ibh)
           /\ m_groups = << >> => Len(m_groups') = 1
      ]_vars

\* C17 witness: the raw load was called on a Mesh that held one Group from a file
\* and left it with two, and before that on the empty Mesh
C17_Witness ==
    /\ ops = <<"load", "loadRaw">>
    /\ Len(m_groups) = 2
    /\ m_groups[1].m_prims = <<PrimA>>
    /\ isValid(m_groups[1].m_vbh)
    /\ m_groups[2].m_prims = << >>
    /\ isValid(m_groups[2].m_vbh)
    /\ isValid(m_groups[2].m_ibh)
    /\ m_groups[2].m_vbh # m_groups[1].m_vbh

\* C18: whatever chunks were decoded, every Group stored in the Mesh holds a valid
\* vertex buffer handle, and Mesh::unload has never passed the invalid handle to
\* bgfx::destroyVertexBuffer.
C18_StoredGroupsHaveVertexBuffer ==
    WellFormed
    => /\ \A i \in DOMAIN m_groups : isValid(m_groups[i].m_vbh)
       /\ \A k \in CallsOf("destroyVertexBuffer") : isValid(calls[k].h)

\* the positions of the PRI chunks in the stream
PRIPositions == {i \in DOMAIN stream : stream[i].tag = "PRI"}

\* the position of the n-th PRI chunk of the stream, 0 for n = 0
NthPRI(n) ==
    IF n = 0 THEN 0
    ELSE CHOOSE i \in PRIPositions : Cardinality({j \in PRIPositions : j <= i}) = n

\* the handle the backend returned for the VB or IB chunk at position i: during
\* a first load the create calls are those of the VB and IB chunks, in order
HandleOfChunk(i) ==
    calls[Cardinality({j \in 1..i : stream[j].tag \in {"VB", "IB"}})].h

\* the handle of the last chunk with this tag after position lo and before
\* position hi, the invalid handle if there is none
LastHandleBetween(tag, lo, hi) ==
    LET at == {i \in (lo + 1)..(hi - 1) : stream[i].tag = tag}
    IN  IF at = {} THEN invalidHandle
        ELSE HandleOfChunk(CHOOSE i \in at : \A j \in at : j <= i)

\* the stream of the first load holds only recognized chunks, each in full
RecognizedOnly ==
    /\ ops = <<"load">>
    /\ WellFormed
    /\ \A i \in DOMAIN stream : stream[i].tag \in {"VB", "IB", "PRI"}

\* C19: for a stream of recognized chunks only, the Mesh holds as many Groups as
\* the stream has PRI chunks, and its i-th Group holds the handle of the last VB
\* chunk and of the last IB chunk that stand after the (i-1)-th and before the
\* i-th PRI chunk, the invalid handle where there is none.
C19_OneGroupPerPRIChunk ==
    RecognizedOnly
    => /\ Len(m_groups) = Cardinality(PRIPositions)
       /\ \A i \in DOMAIN m_groups :
            /\ m_groups[i].m_vbh = LastHandleBetween("VB", NthPRI(i - 1), NthPRI(i))
            /\ m_groups[i].m_ibh = LastHandleBetween("IB", NthPRI(i - 1), NthPRI(i))

\* C19 witness: two VB chunks and then a PRI chunk were decoded and the load has
\* returned; the one Group holds the vertex buffer of the second VB chunk
C19_Witness ==
    /\ RecognizedOnly
    /\ pc = "idle"
    /\ Len(stream) = 3
    /\ stream[1].tag = "VB" /\ stream[2].tag = "VB" /\ stream[3].tag = "PRI"
    /\ Len(m_groups) = 1
    /\ m_groups[1].m_vbh = calls[2].h
    /\ m_groups[1].m_vbh # calls[1].h
    /\ ~isValid(m_groups[1].m_ibh)

\* C19 witness: the second of two Groups holds the index buffer that stands
\* between the two PRI chunks and no vertex buffer
C19_WitnessTwoGroups ==
    /\ RecognizedOnly
    /\ Len(stream) = 3
    /\ stream[1].tag = "PRI" /\ stream[2].tag = "IB" /\ stream[3].tag = "PRI"
    /\ Len(m_groups) = 2
    /\ m_groups[2].m_ibh = calls[1].h
    /\ ~isValid(m_groups[2].m_vbh)

\* C20: an IB chunk changes, of the accumulator, the index buffer handle alone
\* (to the handle of the one index buffer it creates): the accumulator's vertex
\* buffer handle and primitives and the Groups of the Mesh stay as they were;
\* likewise a VB chunk changes the vertex buffer handle and leaves the index
\* buffer handle, the primitives and the Groups of the Mesh as they were.
C20_BufferChunksTouchOwnHandleOnly ==
    [][ /\ ( DecodesChunk /\ Last(stream').tag = "IB" )
            => /\ group' = [group EXCEPT !.m_ibh = group'.m_ibh]
               /\ group'.m_vbh = group.m_vbh
               /\ group'.m_prims = group.m_prims
               /\ m_groups' = m_groups
               /\ m_decl' = m_decl
               /\ Len(NewCalls) = 1
               /\ NewCalls[1].op = "createIndexBuffer"
               /\ NewCalls[1].h = group'.m_ibh
        /\ ( DecodesChunk /\ Last(stream').tag = "VB" )
            => /\ group' = [group EXCEPT !.m_vbh = group'.m_vbh]
               /\ group'.m_ibh = group.m_ibh
               /\ group'.m_prims = group.m_prims
               /\ m_groups' = m_groups
               /\ Len(NewCalls) = 1
               /\ NewCalls[1].op = "createVertexBuffer"
               /\ NewCalls[1].h = group'.m_vbh
      ]_vars

\* C20 witness: after a Group was sealed, an IB chunk and then a VB chunk were
\* decoded: the accumulator holds both buffers and the Mesh its one Group
C20_Witness ==
    /\ pc = "loading"
    /\ Len(stream) = 3
    /\ stream[1].tag = "PRI" /\ stream[2].tag = "IB" /\ stream[3].tag = "VB"
    /\ WellFormed
    /\ Len(m_groups) = 1
    /\ group.m_ibh = calls[1].h
    /\ group.m_vbh = calls[2].h
    /\ isValid(group.m_ibh)
    /\ isValid(group.m_vbh)

-----------------------------------------------------------------------------
(* Properties of the render loop, checked under SpecMain *)

\* the object submissions (bgfx::submit of Mesh::submit) to a view in this iteration
SubmitsTo(view) ==
    {i \in DOMAIN frameCalls : frameCalls[i].op = "submit" /\ frameCalls[i].arg = view}

\* the Groups of the four meshes
TotalGroups ==
    Len(meshes["hplaneMesh"]) + Len(meshes["bunnyMesh"])
        + Len(meshes["hollowcubeMesh"]) + Len(meshes["cubeMesh"])

\* C6: in every frame all submissions of the depth pass (view
\* RENDER_SHADOW_PASS_ID, all four objects) are issued before the first
\* submission of the shaded pass (view RENDER_SCENE_PASS_ID), and bgfx::frame()
\* is issued only after all submissions of both passes.
C6_DepthPassThenScenePassThenFrame ==
    /\ \A i \in SubmitsTo(RENDER_SHADOW_PASS_ID), j \in SubmitsTo(RENDER_SCENE_PASS_ID) : i < j
    /\ (mainPc # "done" /\ SubmitsTo(RENDER_SCENE_PASS_ID) # {})
        => Cardinality(SubmitsTo(RENDER_SHADOW_PASS_ID)) = TotalGroups
    /\ \A k \in DOMAIN frameCalls :
        frameCalls[k].op = "frame"
        => /\ \A i \in SubmitsTo(RENDER_SHADOW_PASS_ID) \cup SubmitsTo(RENDER_SCENE_PASS_ID) : i < k
           /\ mainPc # "done"
                => /\ Cardinality(SubmitsTo(RENDER_SHADOW_PASS_ID)) = TotalGroups
                   /\ Cardinality(SubmitsTo(RENDER_SCENE_PASS_ID)) = TotalGroups

\* C6 witness: the second frame has been ended after both passes submitted the
\* plane and two Groups of every other mesh
C6_Witness ==
    /\ frames = 2
    /\ mainPc = "loop"
    /\ Last(frameCalls).op = "frame"
    /\ Len(meshes["bunnyMesh"]) = 2
    /\ Len(meshes["cubeMesh"]) = 2
    /\ Len(meshes["hollowcubeMesh"]) = 2
    /\ Cardinality(SubmitsTo(RENDER_SHADOW_PASS_ID)) = 7
    /\ Cardinality(SubmitsTo(RENDER_SCENE_PASS_ID)) = 7

\* the calls of this iteration that set the clear of a view
ClearsOf(view) ==
    {k \in DOMAIN frameCalls :
        /\ frameCalls[k].op = "setViewClearMask"
        /\ view \in frameCalls[k].arg[1]}

\* C13: in every frame the clear of each of the two views is set exactly once,
\* for color and depth, and before the first object submission to either view.
C13_ClearedOncePerFrameBeforeSubmits ==
    frameCalls # << >>
    => \A view \in {RENDER_SHADOW_PASS_ID, RENDER_SCENE_PASS_ID} :
        /\ Cardinality(ClearsOf(view)) = 1
        /\ \A k \in ClearsOf(view) :
            /\ frameCalls[k].arg[2] = {"BGFX_CLEAR_COLOR_BIT", "BGFX_CLEAR_DEPTH_BIT"}
            /\ \A i \in SubmitsTo(RENDER_SHADOW_PASS_ID) \cup SubmitsTo(RENDER_SCENE_PASS_ID) :
                    k < i

\* C13 witness: the second frame has been ended, both views having been cleared
\* once and then submitted to
C13_Witness ==
    /\ frames = 2
    /\ mainPc = "loop"
    /\ Last(frameCalls).op = "frame"
    /\ Cardinality(ClearsOf(RENDER_SHADOW_PASS_ID)) = 1
    /\ Cardinality(ClearsOf(RENDER_SCENE_PASS_ID)) = 1
    /\ SubmitsTo(RENDER_SHADOW_PASS_ID) # {}
    /\ SubmitsTo(RENDER_SCENE_PASS_ID) # {}

\* the u_lightMtx uniforms set in this iteration
LightMtxSets ==
    {k \in DOMAIN frameCalls :
        frameCalls[k].op = "setUniform" /\ frameCalls[k].arg[1] = "u_lightMtx"}

\* the light matrix in force at the submission at i: the last one set before it
LightMtxAt(i) ==
    {frameCalls[k].arg[2] :
        k \in {n \in LightMtxSets : n < i /\ \A j \in LightMtxSets : j < i => j <= n}}

\* the model matrix of the submission at i: the last setTransform before it
TransformAt(i) ==
    {frameCalls[k].arg :
        k \in {n \in 1..(i - 1) :
                /\ frameCalls[n].op = "setTransform"
                /\ \A j \in (n + 1)..(i - 1) : frameCalls[j].op # "setTransform"}}

\* lightView and lightProj as this iteration set them for the depth pass
DepthViewTransforms ==
    {<<frameCalls[k].arg[2], frameCalls[k].arg[3]>> :
        k \in {n \in DOMAIN frameCalls :
                /\ frameCalls[n].op = "setViewTransform"
                /\ frameCalls[n].arg[1] = RENDER_SHADOW_PASS_ID}}

\* C14: every submission of the shaded pass comes after a set of the u_lightMtx
\* uniform, and the matrix last set is (the model matrix the submission is
\* drawn with) x (lightView x (lightProj x mtxCrop)), lightView and lightProj
\* being those set as the view transform of the depth pass in the same frame;
\* so all objects of a frame share one shadow matrix and none is drawn with
\* another object's or another frame's light transform.
C14_LightMtxIsModelTimesShadow ==
    \A i \in SubmitsTo(RENDER_SCENE_PASS_ID) :
        /\ Cardinality(LightMtxAt(i)) = 1
        /\ Cardinality(TransformAt(i)) = 1
        /\ Cardinality(DepthViewTransforms) = 1
        /\ \A l \in LightMtxAt(i), m \in TransformAt(i), t \in DepthViewTransforms :
                l = mtxMul(m, mtxMul(t[1], mtxMul(t[2], MtxCrop2(s_flipV))))

\* C14 witness: in a second frame whose light has moved, the cube (the last
\* object) has been submitted to the shaded pass after the other three
C14_Witness ==
    /\ frames = 2
    /\ timeAccumulatorLight = 1
    /\ mainPc = "frame"
    /\ Cardinality(LightMtxSets) = 4
    /\ Cardinality({frameCalls[k].arg[2] : k \in LightMtxSets}) = 4
    /\ Cardinality(SubmitsTo(RENDER_SCENE_PASS_ID)) = 7
    /\ LightMtxAt(Len(frameCalls)) =
            {mtxMul(InstanceMtx("mtxCube", 1), MtxShadow(1, s_flipV))}

\* the vertex buffer of the submission at i: the last one set before it
VertexBufferAt(i) ==
    {frameCalls[k].arg :
        k \in {n \in 1..(i - 1) :
                /\ frameCalls[n].op = "setVertexBuffer"
                /\ \A j \in (n + 1)..(i - 1) : frameCalls[j].op # "setVertexBuffer"}}

\* the submissions of this iteration to a view that draw the vertex buffer vbh
SubmitsOf(view, vbh) == {i \in SubmitsTo(view) : VertexBufferAt(i) = {vbh}}

\* the calls of bgfx::frame() in this iteration
FrameCallsOf == {k \in DOMAIN frameCalls : frameCalls[k].op = "frame"}

\* the iteration has submitted every Group of every mesh once to each pass and
\* then called bgfx::frame() once
FrameComplete ==
    /\ \A view \in {RENDER_SHADOW_PASS_ID, RENDER_SCENE_PASS_ID} :
        /\ Cardinality(SubmitsTo(view)) = TotalGroups
        /\ \A m \in MeshNames :
            \A k \in DOMAIN meshes[m] :
                Cardinality(SubmitsOf(view, meshes[m][k].m_vbh)) = 1
    /\ FrameCallsOf = {Len(frameCalls)}

\* C15: a frame, once begun, runs both passes to the end: every iteration that
\* has begun goes on to submit every Group of each of the four meshes exactly
\* once to the depth pass and exactly once to the shaded pass and then to call
\* bgfx::frame() exactly once; the loop is left only between iterations, never
\* after one pass.
C15_FrameRunsBothPasses ==
    /\ []((mainPc \in {"loop", "unload"} /\ frames > 0) => FrameComplete)
    /\ []((mainPc \in {"unload", "done"} /\ frameCalls # << >>)
            => Last(frameCalls).op = "frame")
    /\ (mainPc = "shadow") ~> (mainPc = "loop" /\ FrameComplete)

\* C15 witness: the second iteration has run to its end with seven Groups, each
\* submitted once to each pass
C15_Witness ==
    /\ frames = 2
    /\ mainPc = "loop"
    /\ TotalGroups = 7
    /\ FrameComplete
    /\ \A m \in MeshNames : \A k \in DOMAIN meshes[m] :
            /\ Cardinality(SubmitsOf(RENDER_SHADOW_PASS_ID, meshes[m][k].m_vbh)) = 1
            /\ Cardinality(SubmitsOf(RENDER_SCENE_PASS_ID, meshes[m][k].m_vbh)) = 1

\* the calls that set the draw state of the submission at i: those after the
\* submission before it
DrawStateOf(i) ==
    {k \in 1..(i - 1) :
        \A j \in k..(i - 1) : frameCalls[j].op \notin {"submit", "submitMask"}}

\* C7: no submission of the depth pass binds the shadow-map render target as a
\* sampled texture; only submissions of the shaded pass do.
C7_DepthPassDoesNotSampleShadowMap ==
    \A i \in SubmitsTo(RENDER_SHADOW_PASS_ID) :
        \A k \in DrawStateOf(i) :
            frameCalls[k].op = "setTexture" => frameCalls[k].arg[3] # "s_rtShadowMap"

\* (x, y, z, 1) times a matrix whose entries are doubled: the doubled x, y, z, w
VecMulMtx2(v, m) ==
    [j \in 1..4 |-> v[1] * m[j] + v[2] * m[4 + j] + v[3] * m[8 + j] + 1 * m[12 + j]]

\* the doubled matrix m maps the clip-space point p to the texture-space point q
Maps(m, p, q) == VecMulMtx2(p, m) = <<2 * q[1], 2 * q[2], 2 * q[3], 2>>

\* the crop matrices inside the u_lightMtx uniforms set in this iteration:
\* lightMtx = model * (lightView * (lightProj * mtxCrop))
CropsInUse ==
    {frameCalls[i].arg[2][3][3][3] :
        i \in {k \in DOMAIN frameCalls :
                /\ frameCalls[k].op = "setUniform"
                /\ frameCalls[k].arg[1] = "u_lightMtx"}}

\* C8 as stated: with s_flipV false the crop matrix maps (-1,-1,-1) to (0,0,0)
\* and (1,1,1) to (1,1,1); with s_flipV true it maps (-1,1,-1) to (0,0,0).
C8_CropBiasAsStated ==
    \A m \in CropsInUse :
        /\ ~s_flipV => Maps(m, <<-1, -1, -1>>, <<0, 0, 0>>) /\ Maps(m, <<1, 1, 1>>, <<1, 1, 1>>)
        /\ s_flipV => Maps(m, <<-1, 1, -1>>, <<0, 0, 0>>)

\* C8 amended: with s_flipV true the crop matrix maps (-1,-1,-1) to (0,0,0) and
\* (1,1,1) to (1,1,1); with s_flipV false it inverts the vertical coordinate and
\* maps (-1,1,-1) to (0,0,0).
C8_CropBias ==
    \A m \in CropsInUse :
        /\ s_flipV => Maps(m, <<-1, -1, -1>>, <<0, 0, 0>>) /\ Maps(m, <<1, 1, 1>>, <<1, 1, 1>>)
        /\ ~s_flipV => Maps(m, <<-1, 1, -1>>, <<0, 0, 0>>)

\* C8 witness: a Direct3D frame (s_flipV false) has set a light matrix, the
\* crop matrix in it turning the vertical coordinate over
C8_Witness ==
    /\ rendererType = "Direct3D11"
    /\ ~s_flipV
    /\ CropsInUse # {}
    /\ \A m \in CropsInUse : Maps(m, <<-1, 1, -1>>, <<0, 0, 0>>) /\ Maps(m, <<1, -1, 1>>, <<1, 1, 1>>)

=============================================================================
